---- MODULE Spec2Model ----
(***************************************************************************)
(* Model of the storybook client (src/api/stt.js, the App component from   *)
(* line 130 on): the streaming session state machine with its request      *)
(* tokens, the interaction dispatcher, and the gesture pipeline (capture   *)
(* loop, rate governor, debounce timer), the cleanups run at unmount, and  *)
(* the server's transcription and gesture-vision handlers                  *)
(* (src/server/index.js, src/api/gesture-vision.js, src/api/stt.js 1-75).  *)
(*                                                                         *)
(* React state is read through closures.  A setter called by a callback,  *)
(* a promise continuation or an effect leaves the new value to a later     *)
(* render (Render); the state variables hold the values as the setters     *)
(* left them and the rendered* variables those of the latest render.  A    *)
(* handler invoked by the DOM is the one bound by the latest render and    *)
(* reads that render's values and disabled flags; what a click handler     *)
(* itself sets is rendered before its task ends.  A callback that outlives *)
(* the render that created it (the capture loop's detect, the debounce     *)
(* timer) keeps reading the values of that render, so every such callback  *)
(* carries the isStreamingReady value it captured.  Refs (useRef) are      *)
(* shared by all renders and are plain variables here.                     *)
(***************************************************************************)
EXTENDS Integers, Sequences, FiniteSets, TLC

VARIABLES
    serviceRef,         \* serviceRef.current is set (an API key was present)
    connectPc,          \* the promise of service.connect(): idle/pending/resolved/rejected
    connectionStatus,   \* useState ConnectionStatus, as the setter left it
    renderedConnected,  \* the connectionStatus of the latest render was 'connected'
    streamState,        \* useState StreamState
    isStreamingReady,   \* useState boolean
    error,              \* useState error message (by kind), "null" when cleared
    index,              \* useState slide index
    requestIdRef,       \* requestIdRef.current, the current request token
    seq,                \* seq[t]: where the run() of token t is suspended
    startedPending,     \* tokens whose startStream call has not yet produced onStreamStarted
    sdkActive,          \* the collaborator has a stream running
    now,                \* milliseconds since page load (performance.now())
    gesturesEnabled,    \* useState boolean
    loops,              \* loops[i]: the i-th enableGestures invocation and its detect loop
    detectFrameRef,     \* detectFrameRef.current: 0 (null) or the loop owning the frame id
    lastVisionCheckRef, \* lastVisionCheckRef.current (performance.now() clock)
    lastGeminiAtRef,    \* lastGeminiAtRef.current (Date.now() clock)
    visionRetryAtRef,   \* visionRetryAtRef.current (Date.now() clock)
    visionInFlightRef,  \* visionInFlightRef.current
    requests,           \* outstanding fetches to /api/gesture-vision, oldest first
    pendingGestureRef,  \* pendingGestureRef.current, "null" when empty
    pendingTimerRef,    \* pendingTimerRef.current: NoTimer or the timer last armed
    timers,             \* armed window.setTimeout callbacks of scheduleGesturePrompt
    pendingSince,       \* history: when pendingGestureRef last changed to its present value
    cameraSrc,          \* cameraRef.current.srcObject: 0 (null) or the stream of loop i
    liveStreams,        \* camera streams acquired whose tracks are not stopped
    issues,             \* history: the classification fetches issued, oldest first
    last429,            \* history: the latest 429 response handled
    mounted,            \* the App component is mounted
    teardown,           \* the connect effect's cleanup: idle/endStream/disconnect/done
    disconnects,        \* history: calls of service.disconnect()
    unhandled,          \* history: a rejection left the cleanup's promise chains unhandled
    interactPending,    \* some promise of service.interact() has not settled
    request,            \* the HTTP request the server is handling, NoRequest when idle
    response,           \* the HTTP response the server sent last, NoResponse before any
    modelCalls,         \* history: calls of ai.models.generateContent by the server
    isRecording,        \* useState boolean
    isTranscribing,     \* useState boolean
    pressed,            \* the user holds the mic button down
    recs,               \* recs[i]: the i-th startRecording invocation and its recorder
    mediaStreamRef,     \* mediaStreamRef.current: 0 (null) or the stream of invocation i
    mediaRecorderRef,   \* mediaRecorderRef.current: 0 (null) or the recorder of invocation i
    micLive,            \* microphone streams acquired whose tracks are not stopped
    renderedReady,      \* the isStreamingReady of the latest render
    renderedGestures,   \* the gesturesEnabled of the latest render
    renderedRecording,  \* the isRecording of the latest render
    renderedTranscribing, \* the isTranscribing of the latest render
    ev                  \* the outbound call, if any, made by the step just taken

sessionVars == <<serviceRef, connectPc, connectionStatus, renderedConnected, streamState,
                 isStreamingReady, error, index, requestIdRef, seq,
                 startedPending, sdkActive>>
gestureVars == <<gesturesEnabled, loops, detectFrameRef, lastVisionCheckRef,
                 lastGeminiAtRef, visionRetryAtRef, visionInFlightRef, requests,
                 pendingGestureRef, pendingTimerRef, timers, pendingSince,
                 cameraSrc, liveStreams, issues, last429>>
lifeVars == <<mounted, teardown, disconnects, unhandled>>
serverVars == <<request, response, modelCalls>>
recVars == <<isRecording, isTranscribing, pressed, recs, mediaStreamRef,
             mediaRecorderRef, micLive>>
renderVars == <<renderedReady, renderedGestures, renderedRecording,
                renderedTranscribing>>
vars == <<sessionVars, gestureVars, lifeVars, interactPending, serverVars,
          recVars, renderVars, now, ev>>

----------------------------------------------------------------------------
(* Bounds of the model *)

MaxToken == 3          \* request tokens minted in one run
NumSlides == 2         \* slides in slides.json
MaxLoops == 2          \* enableGestures invocations followed in one run
MaxRequests == 2       \* classification fetches that may be outstanding at once
MaxRecordings == 2     \* startRecording invocations followed in one run
MaxNow == 12000        \* the clock stops here
TickMs == 400          \* the clock's step while a debounce timer is armed
CoarseMs == 2000       \* the clock's step otherwise
GestureTokens == 2     \* request tokens minted in a run of the gesture pipeline
EpochMs == 100000      \* Date.now() - performance.now()

(* Program constants *)

GESTURE_DELAY_MS == 1200
GEMINI_GESTURE_COOLDOWN_MS == 8000
VISION_POLL_MS == 1200
DefaultRetryAfterMs == 10000

Tokens == 1..MaxToken
LoopIds == 1..MaxLoops
RecIds == 1..MaxRecordings

ConnectionStatuses == {"authenticating", "connecting", "reconnecting",
                       "connected", "disconnected", "failed"}
StreamStates == {"idle", "starting", "streaming", "ended", "error"}

\* What the step just taken did towards the outside: call is "interact",
\* "startStream", "endStream", "loadImage", "classify" (the fetch of a frame),
\* "throw" (the callback ended in a TypeError), "response" (a classification
\* fetch completed) or "none".  fired is the label a debounce timer confirmed
\* in the step.  For a response, via and label are its kind and label, was the
\* pending label before it and at the deadline armed before it (-1: none).
Call(c, via, prompt, token) ==
    [call |-> c, via |-> via, prompt |-> prompt, token |-> token,
     fired |-> "null", at |-> 0, was |-> "null", label |-> "null"]

NoCall == Call("none", "-", <<>>, 0)

----------------------------------------------------------------------------
(* Prompts are sequences of tokens; " " is white space. *)

Space == " "

RECURSIVE TrimLeft(_)
TrimLeft(s) ==
    IF s # <<>> /\ Head(s) = Space THEN TrimLeft(Tail(s)) ELSE s

RECURSIVE TrimRight(_)
TrimRight(s) ==
    IF s # <<>> /\ s[Len(s)] = Space THEN TrimRight(SubSeq(s, 1, Len(s) - 1)) ELSE s

Trim(s) == TrimRight(TrimLeft(s))

\* texts a user can type, and the cta texts a slide can carry
Prompts == {<<>>, <<Space>>, <<"wish">>, <<Space, "wish", Space>>}

----------------------------------------------------------------------------
(* InteractionDispatcher: handleInteract, src/api/stt.js 291-302.  ready is *)
(* the isStreamingReady of the render whose handleInteract is being run.   *)

\* GESTURE_PROMPTS[label] of a key the literal does not own but inherits
NonString == <<"[object]">>

HandleInteract(ready, prompt, via) ==
    IF ~serviceRef \/ ~ready THEN NoCall
    ELSE IF prompt = NonString THEN Call("throw", via, <<>>, 0)
    ELSE IF Trim(prompt) = <<>> THEN NoCall
    ELSE Call("interact", via, Trim(prompt), 0)

----------------------------------------------------------------------------
(* Slide-change effect and its run(), src/api/stt.js 237-265 *)

\* the token comparison left out: every sequence believes it is current
IsStaleNever(t) == FALSE

\* the token comparison of lines 251 and 258
IsStale(t) == requestIdRef # t

\* the effect body up to the first await, run after a render; connected:
\* the connectionStatus of that render is 'connected' (line 239)
SlideEffect(connected) ==
    IF serviceRef /\ connected
    THEN /\ requestIdRef' = requestIdRef + 1
         /\ streamState' = "starting"
         /\ isStreamingReady' = FALSE
         /\ error' = "null"
         /\ seq' = [seq EXCEPT ![requestIdRef + 1] = "endStream"]
         /\ ev' = Call("endStream", "-", <<>>, requestIdRef + 1)
    ELSE /\ UNCHANGED <<requestIdRef, streamState, isStreamingReady, error, seq>>
         /\ ev' = NoCall

\* the guard that keeps tokens within the bound
CanMint(connected) == (serviceRef /\ connected) => requestIdRef < MaxToken

\* handlePrev / handleNext, lines 283-289, and the effect their render runs:
\* a click is rendered before the handler's task ends, with the
\* connectionStatus of the latest render (a status set by a callback and not
\* yet rendered is rendered later, by Render)
HandleNav(d) ==
    /\ mounted
    /\ CanMint(renderedConnected)
    /\ index' = (index + d + NumSlides) % NumSlides
    /\ IF index' # index
       THEN SlideEffect(renderedConnected)
       ELSE /\ UNCHANGED <<requestIdRef, streamState, isStreamingReady, error, seq>>
            /\ ev' = NoCall
    /\ UNCHANGED <<serviceRef, connectPc, connectionStatus, renderedConnected, startedPending, sdkActive>>
    /\ UNCHANGED <<gestureVars, lifeVars, interactPending, serverVars, recVars, renderVars, now>>

HandleNext == HandleNav(1)

HandlePrev == HandleNav(-1)

\* await service.endStream().catch(() => undefined) settles; loadImageFile is called
EndStreamSettles(t) ==
    /\ seq[t] = "endStream"
    /\ seq' = [seq EXCEPT ![t] = "loadImage"]
    /\ ev' = Call("loadImage", "-", <<>>, t)
    /\ UNCHANGED <<serviceRef, connectPc, connectionStatus, renderedConnected, streamState,
                   isStreamingReady, error, index, requestIdRef,
                   startedPending, sdkActive>>
    /\ UNCHANGED <<gestureVars, lifeVars, interactPending, serverVars, recVars, renderVars, now>>

\* loadImageFile resolved: the token check of line 251, then startStream
LoadImageResolves(t) ==
    /\ seq[t] = "loadImage"
    /\ IF IsStale(t)
       THEN /\ seq' = [seq EXCEPT ![t] = "abandoned"]
            /\ ev' = NoCall
            /\ UNCHANGED startedPending
       ELSE /\ seq' = [seq EXCEPT ![t] = "startStream"]
            /\ ev' = Call("startStream", "-", <<>>, t)
            /\ startedPending' = startedPending \cup {t}
    /\ UNCHANGED <<serviceRef, connectPc, connectionStatus, renderedConnected, streamState,
                   isStreamingReady, error, index, requestIdRef, sdkActive>>
    /\ UNCHANGED <<gestureVars, lifeVars, interactPending, serverVars, recVars, renderVars, now>>

\* run().catch, lines 257-264; the setters of an unmounted component do nothing
RunCatch(t) ==
    /\ seq' = [seq EXCEPT ![t] = "failed"]
    /\ ev' = NoCall
    /\ IF IsStale(t) \/ ~mounted
       THEN UNCHANGED <<streamState, isStreamingReady, error>>
       ELSE /\ streamState' = "error"
            /\ isStreamingReady' = FALSE
            /\ error' = "run_failed"

\* loadImageFile threw (fetch failed, not ok, or the image is too large)
LoadImageRejects(t) ==
    /\ seq[t] = "loadImage"
    /\ RunCatch(t)
    /\ UNCHANGED <<serviceRef, connectPc, connectionStatus, renderedConnected, index, requestIdRef,
                   startedPending, sdkActive>>
    /\ UNCHANGED <<gestureVars, lifeVars, interactPending, serverVars, recVars, renderVars, now>>

StartStreamResolves(t) ==
    /\ seq[t] = "startStream"
    /\ seq' = [seq EXCEPT ![t] = "done"]
    /\ ev' = NoCall
    /\ UNCHANGED <<serviceRef, connectPc, connectionStatus, renderedConnected, streamState,
                   isStreamingReady, error, index, requestIdRef,
                   startedPending, sdkActive>>
    /\ UNCHANGED <<gestureVars, lifeVars, interactPending, serverVars, recVars, renderVars, now>>

\* startStream rejected: the stream of token t never starts
StartStreamRejects(t) ==
    /\ seq[t] = "startStream"
    /\ t \in startedPending
    /\ RunCatch(t)
    /\ startedPending' = startedPending \ {t}
    /\ UNCHANGED <<serviceRef, connectPc, connectionStatus, renderedConnected, index, requestIdRef,
                   sdkActive>>
    /\ UNCHANGED <<gestureVars, lifeVars, interactPending, serverVars, recVars, renderVars, now>>

----------------------------------------------------------------------------
(* Connect effect and the collaborator's callbacks, src/api/stt.js 183-235. *)
(* The callbacks only call state setters, which React drops once the       *)
(* component is unmounted, so they are followed while it is mounted.       *)

\* handleSaveKey, lines 304-314; the overlay is shown only without a key
HandleSaveKey(key) ==
    /\ mounted
    /\ ~serviceRef
    /\ IF Trim(key) = <<>>
       THEN /\ error' = "invalid_key"
            /\ UNCHANGED <<serviceRef, connectPc>>
       ELSE /\ error' = "null"
            /\ serviceRef' = TRUE
            /\ connectPc' = "pending"
    /\ ev' = NoCall
    /\ UNCHANGED <<connectionStatus, renderedConnected, streamState, isStreamingReady, index,
                   requestIdRef, seq, startedPending, sdkActive>>
    /\ UNCHANGED <<gestureVars, lifeVars, interactPending, serverVars, recVars, renderVars, now>>

ConnectResolves ==
    /\ mounted
    /\ connectPc = "pending"
    /\ connectPc' = "resolved"
    /\ ev' = NoCall
    /\ UNCHANGED <<serviceRef, connectionStatus, renderedConnected, streamState, isStreamingReady,
                   error, index, requestIdRef, seq, startedPending, sdkActive>>
    /\ UNCHANGED <<gestureVars, lifeVars, interactPending, serverVars, recVars, renderVars, now>>

\* .catch of connect, lines 222-225
ConnectRejects ==
    /\ mounted
    /\ connectPc = "pending"
    /\ connectPc' = "rejected"
    /\ streamState' = "error"
    /\ error' = "connect_failed"
    /\ ev' = NoCall
    /\ UNCHANGED <<serviceRef, connectionStatus, renderedConnected, isStreamingReady, index,
                   requestIdRef, seq, startedPending, sdkActive>>
    /\ UNCHANGED <<gestureVars, lifeVars, interactPending, serverVars, recVars, renderVars, now>>

\* onStatusChange, lines 200-202: the callback sets the state and returns;
\* React renders it in a later task
OnStatusChange(s) ==
    /\ mounted
    /\ connectPc # "idle"
    /\ s # connectionStatus
    /\ connectionStatus' = s
    /\ ev' = NoCall
    /\ UNCHANGED <<serviceRef, connectPc, renderedConnected, streamState, isStreamingReady,
                   error, index, requestIdRef, seq, startedPending, sdkActive>>
    /\ UNCHANGED <<gestureVars, lifeVars, interactPending, serverVars, recVars, renderVars, now>>

\* the connectionStatus to render is 'connected'
Connected == connectionStatus = "connected"

\* some state differs from what the latest render showed
RenderPending ==
    \/ renderedConnected # Connected
    \/ renderedReady # isStreamingReady
    \/ renderedGestures # gesturesEnabled
    \/ renderedRecording # isRecording
    \/ renderedTranscribing # isTranscribing

\* the render of the state set since the latest render, in a task of its
\* own, and the slide effect it runs when its connectionStatus differs from
\* that of the render before (dependency list, line 265); statuses set in
\* between were never rendered.  A render from one status other than
\* 'connected' to another runs the effect to its return at line 240 and
\* changes nothing followed here.  What the effect sets is left to the
\* next render.
Render ==
    /\ mounted
    /\ RenderPending
    /\ renderedConnected' = Connected
    /\ renderedReady' = isStreamingReady
    /\ renderedGestures' = gesturesEnabled
    /\ renderedRecording' = isRecording
    /\ renderedTranscribing' = isTranscribing
    /\ IF renderedConnected # Connected
       THEN /\ CanMint(Connected)
            /\ SlideEffect(Connected)
       ELSE /\ UNCHANGED <<requestIdRef, streamState, isStreamingReady, error, seq>>
            /\ ev' = NoCall
    /\ UNCHANGED <<serviceRef, connectPc, connectionStatus, index, startedPending, sdkActive>>
    /\ UNCHANGED <<gestureVars, lifeVars, interactPending, serverVars, recVars, now>>

\* onStreamStarted, lines 203-206, for the stream that startStream of token t began
OnStreamStarted(t) ==
    /\ mounted
    /\ t \in startedPending
    /\ streamState' = "streaming"
    /\ isStreamingReady' = TRUE
    /\ startedPending' = startedPending \ {t}
    /\ sdkActive' = TRUE
    /\ ev' = NoCall
    /\ UNCHANGED <<serviceRef, connectPc, connectionStatus, renderedConnected, error, index,
                   requestIdRef, seq>>
    /\ UNCHANGED <<gestureVars, lifeVars, interactPending, serverVars, recVars, renderVars, now>>

\* onStreamEnded, lines 207-210
OnStreamEnded ==
    /\ mounted
    /\ sdkActive
    /\ streamState' = "ended"
    /\ isStreamingReady' = FALSE
    /\ sdkActive' = FALSE
    /\ ev' = NoCall
    /\ UNCHANGED <<serviceRef, connectPc, connectionStatus, renderedConnected, error, index,
                   requestIdRef, seq, startedPending>>
    /\ UNCHANGED <<gestureVars, lifeVars, interactPending, serverVars, recVars, renderVars, now>>

\* onStreamError, lines 211-215
OnStreamError ==
    /\ mounted
    /\ sdkActive \/ startedPending # {}
    /\ streamState' = "error"
    /\ isStreamingReady' = FALSE
    /\ error' = "stream_error"
    /\ sdkActive' = FALSE
    /\ startedPending' = {}
    /\ ev' = NoCall
    /\ UNCHANGED <<serviceRef, connectPc, connectionStatus, renderedConnected, index,
                   requestIdRef, seq>>
    /\ UNCHANGED <<gestureVars, lifeVars, interactPending, serverVars, recVars, renderVars, now>>

\* onError, lines 216-220
OnError ==
    /\ mounted
    /\ connectPc # "idle"
    /\ streamState' = "error"
    /\ isStreamingReady' = FALSE
    /\ error' = "sdk_error"
    /\ ev' = NoCall
    /\ UNCHANGED <<serviceRef, connectPc, connectionStatus, renderedConnected, index,
                   requestIdRef, seq, startedPending, sdkActive>>
    /\ UNCHANGED <<gestureVars, lifeVars, interactPending, serverVars, recVars, renderVars, now>>

----------------------------------------------------------------------------
(* Entries into handleInteract from the DOM, read from the latest render *)

\* handleTextPromptSubmit, lines 316-323; input and button are disabled
\* unless isStreamingReady (lines 583, 585)
HandleTextPromptSubmit(text) ==
    /\ mounted
    /\ renderedReady
    /\ ev' = IF Trim(text) = <<>> THEN NoCall
             ELSE HandleInteract(renderedReady, Trim(text), "typed")
    /\ interactPending' = (interactPending \/ ev'.call = "interact")
    /\ UNCHANGED <<sessionVars, gestureVars, lifeVars, serverVars, recVars, renderVars, now>>

\* the CTA button, line 595: handleInteract() with slide.cta
HandleCta(cta) ==
    /\ mounted
    /\ renderedReady
    /\ ev' = HandleInteract(renderedReady, cta, "cta")
    /\ interactPending' = (interactPending \/ ev'.call = "interact")
    /\ UNCHANGED <<sessionVars, gestureVars, lifeVars, serverVars, recVars, renderVars, now>>

----------------------------------------------------------------------------
(* Gesture labels and GESTURE_PROMPTS, src/api/stt.js 93, 123-128 *)

GestureLabels == {"hello", "thumbs_up", "victory", "namaste"}

\* keys every object literal inherits from Object.prototype
InheritedKeys == {"constructor", "toString"}

\* GESTURE_PROMPTS[label]
GESTURE_PROMPTS(label) ==
    CASE label = "hello" -> <<"do", Space, "hello">>
      [] label = "thumbs_up" -> <<"do", Space, "thumbs", Space, "up">>
      [] label = "victory" -> <<"do", Space, "victory", Space, "sign">>
      [] label = "namaste" -> <<"do", Space, "namaste">>
      [] label \in InheritedKeys -> NonString
      [] OTHER -> <<>>

\* line 456: label && GESTURE_PROMPTS[label]; a missing label is undefined
HasPrompt(label) ==
    /\ label \notin {"undefined", ""}
    /\ GESTURE_PROMPTS(label) # <<>>

\* the labels a response body is drawn from
ResponseLabels == {"hello", "thumbs_up", "none", "wave", "constructor", "undefined"}

\* retryAfterMs of a 429 body; -1 stands for an absent field
RetryAfterValues == {-1, 10000, 4000}

Outcomes ==
    [kind : {"ok"}, label : ResponseLabels, ms : {-1}]
      \cup [kind : {"429"}, label : {"undefined"}, ms : RetryAfterValues]
      \cup [kind : {"notok", "throw"}, label : {"undefined"}, ms : {-1}]

DateNow == EpochMs + now

----------------------------------------------------------------------------
(* DebounceScheduler: scheduleGesturePrompt, src/api/stt.js 404-418 *)

NoTimer == [at |-> -1, label |-> "null", ready |-> FALSE]

\* the value of pendingTimerRef once the timer it names has run: the id of
\* a timer that no longer exists (clearTimeout of it does nothing)
FiredTimer == [at |-> -2, label |-> "null", ready |-> FALSE]

\* the deadline of the timer pendingTimerRef names, -1 when it is not armed
Deadline == IF pendingTimerRef \in timers THEN pendingTimerRef.at ELSE -1

\* scheduleGesturePrompt without its clearTimeout
ScheduleNoClear(label, ready) ==
    LET tm == [at |-> now + GESTURE_DELAY_MS, label |-> label, ready |-> ready]
    IN /\ pendingGestureRef' = label
       /\ timers' = timers \cup {tm}
       /\ pendingTimerRef' = tm
       /\ pendingSince' = IF pendingGestureRef = label THEN pendingSince ELSE now

\* lines 405-409 and 417: the label is stored, the timer of pendingTimerRef
\* cleared, a new timer armed; ready is the closure's isStreamingReady
ScheduleGesturePrompt(label, ready) ==
    LET tm == [at |-> now + GESTURE_DELAY_MS, label |-> label, ready |-> ready]
    IN /\ pendingGestureRef' = label
       /\ timers' = (timers \ {pendingTimerRef}) \cup {tm}
       /\ pendingTimerRef' = tm
       /\ pendingSince' = IF pendingGestureRef = label THEN pendingSince ELSE now

\* the timer callback, lines 409-417
TimerFires(tm) ==
    /\ tm \in timers
    /\ tm.at <= now
    /\ timers' = timers \ {tm}
    /\ pendingTimerRef' = IF pendingTimerRef = tm THEN FiredTimer ELSE pendingTimerRef
    /\ IF pendingGestureRef # tm.label
       THEN /\ ev' = NoCall
            /\ UNCHANGED <<pendingGestureRef, pendingSince>>
       ELSE LET r == HandleInteract(tm.ready, GESTURE_PROMPTS(tm.label), "gesture")
            IN /\ ev' = [r EXCEPT !.fired = tm.label, !.at = tm.at]
               /\ IF r.call = "throw"
                  THEN UNCHANGED <<pendingGestureRef, pendingSince>>
                  ELSE /\ pendingGestureRef' = "null"
                       /\ pendingSince' = 0
    /\ interactPending' = (interactPending \/ ev'.call = "interact")
    /\ UNCHANGED <<gesturesEnabled, loops, detectFrameRef, lastVisionCheckRef,
                   lastGeminiAtRef, visionRetryAtRef, visionInFlightRef, requests,
                   cameraSrc, liveStreams, issues, last429>>
    /\ UNCHANGED <<sessionVars, lifeVars, serverVars, recVars, renderVars, now>>

----------------------------------------------------------------------------
(* RateGovernor and classifier call: classifyGestureFromFrame, 420-466 *)

\* the governor without its in-flight check
AdmittedNoInFlight ==
    /\ DateNow >= visionRetryAtRef
    /\ DateNow - lastGeminiAtRef >= GEMINI_GESTURE_COOLDOWN_MS

\* the governor without its cooldown check
AdmittedNoCooldown ==
    /\ ~visionInFlightRef
    /\ DateNow >= visionRetryAtRef

\* the governor without its retry-after check
AdmittedNoBackoff ==
    /\ ~visionInFlightRef
    /\ DateNow - lastGeminiAtRef >= GEMINI_GESTURE_COOLDOWN_MS

\* the three early returns of lines 422-430
Admitted ==
    /\ ~visionInFlightRef
    /\ DateNow >= visionRetryAtRef
    /\ DateNow - lastGeminiAtRef >= GEMINI_GESTURE_COOLDOWN_MS

\* lines 421-443: up to the fetch
ClassifyGestureFromFrame(ready) ==
    IF Admitted
    THEN /\ visionInFlightRef' = TRUE
         /\ lastGeminiAtRef' = DateNow
         /\ requests' = Append(requests, [ready |-> ready, k |-> Len(issues) + 1])
         /\ issues' = Append(issues, [at |-> DateNow, last |-> lastGeminiAtRef,
                                      retry |-> visionRetryAtRef])
         /\ ev' = [Call("classify", "-", <<>>, 0) EXCEPT !.at = DateNow]
    ELSE /\ UNCHANGED <<visionInFlightRef, lastGeminiAtRef, requests, issues>>
         /\ ev' = NoCall

No429 == [at |-> -1, ms |-> -1, issuedAt |-> -1]

\* the flag cleared only where the try block runs to its end
InFlightAfterNoFinally(o) == o.kind # "ok"

\* finally, lines 463-465: visionInFlightRef.current after outcome o
InFlightAfter(o) == FALSE

\* line 447
RetryDeadline(ms) == DateNow + (IF ms = -1 THEN DefaultRetryAfterMs ELSE ms)

RemoveAt(q, j) == SubSeq(q, 1, j - 1) \o SubSeq(q, j + 1, Len(q))

\* the fetch of request j completes with outcome o: lines 445-465
ClassifyCompletes(j, o) ==
    /\ j \in 1..Len(requests)
    /\ requests' = RemoveAt(requests, j)
    /\ visionRetryAtRef' = IF o.kind = "429" THEN RetryDeadline(o.ms)
                           ELSE visionRetryAtRef
    /\ last429' = IF o.kind = "429"
                  THEN [at |-> DateNow, ms |-> o.ms, issuedAt |-> issues[requests[j].k].at]
                  ELSE last429
    /\ IF o.kind = "ok" /\ HasPrompt(o.label)
       THEN ScheduleGesturePrompt(o.label, requests[j].ready)
       ELSE UNCHANGED <<pendingGestureRef, timers, pendingTimerRef, pendingSince>>
    /\ visionInFlightRef' = InFlightAfter(o)
    /\ ev' = [Call("response", o.kind, <<>>, 0) EXCEPT
                 !.label = o.label, !.was = pendingGestureRef, !.at = Deadline]
    /\ UNCHANGED <<gesturesEnabled, loops, detectFrameRef, lastVisionCheckRef,
                   lastGeminiAtRef, cameraSrc, liveStreams, issues>>
    /\ UNCHANGED <<sessionVars, lifeVars, interactPending, serverVars, recVars, renderVars, now>>

----------------------------------------------------------------------------
(* CaptureLoop: startGestureLoop / enableGestures / disableGestures, 468-534 *)

IdleLoop == [pc |-> "idle", ready |-> FALSE]

\* line 479
CaptureDue == now - lastVisionCheckRef >= VISION_POLL_MS

\* line 491: the isStreamingReady that detect reads
DetectReady(i) == loops[i].ready

\* one animation frame of loop i: detect, lines 474-499.  Once the component
\* is unmounted cameraRef.current is null and detect returns at line 476
\* without asking for another frame.
Detect(i) ==
    /\ loops[i].pc = "running"
    /\ IF ~mounted
       THEN /\ loops' = [loops EXCEPT ![i] = IdleLoop]
            /\ ev' = NoCall
            /\ UNCHANGED <<lastVisionCheckRef, visionInFlightRef, lastGeminiAtRef,
                           requests, issues, detectFrameRef>>
       ELSE /\ IF CaptureDue
               THEN /\ lastVisionCheckRef' = now
                    /\ IF DetectReady(i)
                       THEN ClassifyGestureFromFrame(loops[i].ready)
                       ELSE /\ UNCHANGED <<visionInFlightRef, lastGeminiAtRef,
                                           requests, issues>>
                            /\ ev' = NoCall
               ELSE /\ UNCHANGED <<lastVisionCheckRef, visionInFlightRef,
                                   lastGeminiAtRef, requests, issues>>
                    /\ ev' = NoCall
            /\ detectFrameRef' = i
            /\ UNCHANGED loops
    /\ Len(requests') <= MaxRequests
    /\ UNCHANGED <<gesturesEnabled, visionRetryAtRef, pendingGestureRef,
                   pendingTimerRef, timers, pendingSince, cameraSrc, liveStreams,
                   last429>>
    /\ UNCHANGED <<sessionVars, lifeVars, interactPending, serverVars, recVars, renderVars, now>>

\* the click on "Enable gestures", lines 504-510; the button of the latest
\* render is disabled unless isStreamingReady and calls enableGestures only
\* while gesturesEnabled is false (lines 611-612)
EnableGestures(i) ==
    /\ mounted
    /\ renderedReady
    /\ ~renderedGestures
    /\ loops[i].pc = "idle"
    /\ i \notin liveStreams
    /\ \A h \in LoopIds : h < i => loops[h].pc # "idle" \/ h \in liveStreams
    /\ loops' = [loops EXCEPT ![i] = [pc |-> "acquiring", ready |-> renderedReady]]
    /\ ev' = NoCall
    /\ UNCHANGED <<gesturesEnabled, detectFrameRef, lastVisionCheckRef,
                   lastGeminiAtRef, visionRetryAtRef, visionInFlightRef, requests,
                   pendingGestureRef, pendingTimerRef, timers, pendingSince,
                   cameraSrc, liveStreams, issues, last429>>
    /\ UNCHANGED <<sessionVars, lifeVars, interactPending, serverVars, recVars, renderVars, now>>

\* getUserMedia resolved, lines 510-513.  Without the camera element (the
\* component is unmounted) lines 512-513 are skipped and startGestureLoop
\* returns at line 471: the stream is kept by nothing.
CameraGranted(i) ==
    /\ loops[i].pc = "acquiring"
    /\ IF mounted
       THEN /\ loops' = [loops EXCEPT ![i].pc = "playing"]
            /\ cameraSrc' = i
       ELSE /\ loops' = [loops EXCEPT ![i] = IdleLoop]
            /\ UNCHANGED cameraSrc
    /\ liveStreams' = liveStreams \cup {i}
    /\ ev' = NoCall
    /\ UNCHANGED <<gesturesEnabled, detectFrameRef, lastVisionCheckRef,
                   lastGeminiAtRef, visionRetryAtRef, visionInFlightRef, requests,
                   pendingGestureRef, pendingTimerRef, timers, pendingSince, issues, last429>>
    /\ UNCHANGED <<sessionVars, lifeVars, interactPending, serverVars, recVars, renderVars, now>>

\* getUserMedia rejected, lines 518-520
CameraDenied(i) ==
    /\ loops[i].pc = "acquiring"
    /\ loops' = [loops EXCEPT ![i] = IdleLoop]
    /\ ev' = NoCall
    /\ UNCHANGED <<gesturesEnabled, detectFrameRef, lastVisionCheckRef,
                   lastGeminiAtRef, visionRetryAtRef, visionInFlightRef, requests,
                   pendingGestureRef, pendingTimerRef, timers, pendingSince,
                   cameraSrc, liveStreams, issues, last429>>
    /\ UNCHANGED <<sessionVars, lifeVars, interactPending, serverVars, recVars, renderVars, now>>

\* play() resolved, lines 515-517, and startGestureLoop, lines 468-502;
\* unmounted, the setter does nothing and startGestureLoop returns at 471
PlayResolves(i) ==
    /\ loops[i].pc = "playing"
    /\ IF mounted
       THEN /\ gesturesEnabled' = TRUE
            /\ loops' = [loops EXCEPT ![i].pc = "running"]
            /\ detectFrameRef' = i
       ELSE /\ loops' = [loops EXCEPT ![i] = IdleLoop]
            /\ UNCHANGED <<gesturesEnabled, detectFrameRef>>
    /\ ev' = NoCall
    /\ UNCHANGED <<lastVisionCheckRef, lastGeminiAtRef, visionRetryAtRef,
                   visionInFlightRef, requests, pendingGestureRef, pendingTimerRef,
                   timers, pendingSince, cameraSrc, liveStreams, issues, last429>>
    /\ UNCHANGED <<sessionVars, lifeVars, interactPending, serverVars, recVars, renderVars, now>>

\* play() rejected, lines 518-520
PlayRejects(i) ==
    /\ loops[i].pc = "playing"
    /\ loops' = [loops EXCEPT ![i] = IdleLoop]
    /\ ev' = NoCall
    /\ UNCHANGED <<gesturesEnabled, detectFrameRef, lastVisionCheckRef,
                   lastGeminiAtRef, visionRetryAtRef, visionInFlightRef, requests,
                   pendingGestureRef, pendingTimerRef, timers, pendingSince,
                   cameraSrc, liveStreams, issues, last429>>
    /\ UNCHANGED <<sessionVars, lifeVars, interactPending, serverVars, recVars, renderVars, now>>

\* the click on "Gestures on", lines 523-534; the button of the latest
\* render is disabled unless isStreamingReady and calls disableGestures only
\* while gesturesEnabled; the click's own setter is rendered with it
DisableGestures ==
    /\ mounted
    /\ renderedReady
    /\ renderedGestures
    /\ gesturesEnabled' = FALSE
    /\ renderedGestures' = FALSE
    /\ UNCHANGED <<renderedReady, renderedRecording, renderedTranscribing>>
    /\ detectFrameRef' = 0
    /\ loops' = IF detectFrameRef # 0
                THEN [loops EXCEPT ![detectFrameRef] = IdleLoop]
                ELSE loops
    /\ cameraSrc' = 0
    /\ liveStreams' = liveStreams \ {cameraSrc}
    /\ ev' = NoCall
    /\ UNCHANGED <<lastVisionCheckRef, lastGeminiAtRef, visionRetryAtRef,
                   visionInFlightRef, requests, pendingGestureRef, pendingTimerRef,
                   timers, pendingSince, issues, last429>>
    /\ UNCHANGED <<sessionVars, lifeVars, interactPending, serverVars, recVars, now>>

----------------------------------------------------------------------------
(* The promise of serviceRef.current.interact(prompt), line 299-301 *)

\* a failed interaction taken for a failure of the stream
InteractCatchAsStreamError ==
    IF mounted
    THEN /\ error' = "interact_failed"
         /\ streamState' = "error"
         /\ isStreamingReady' = FALSE
    ELSE UNCHANGED <<error, streamState, isStreamingReady>>

\* .catch((err) => setError(...)), lines 299-301
InteractCatch ==
    /\ error' = IF mounted THEN "interact_failed" ELSE error
    /\ UNCHANGED <<streamState, isStreamingReady>>

\* an interact promise resolves; others may still be outstanding
InteractResolves ==
    /\ interactPending
    /\ interactPending' \in BOOLEAN
    /\ ev' = NoCall
    /\ UNCHANGED <<sessionVars, gestureVars, lifeVars, serverVars, recVars, renderVars, now>>

\* an interact promise rejects; others may still be outstanding
InteractRejects ==
    /\ interactPending
    /\ interactPending' \in BOOLEAN
    /\ InteractCatch
    /\ ev' = Call("rejected", "interact", <<>>, 0)
    /\ UNCHANGED <<serviceRef, connectPc, connectionStatus, renderedConnected, index, requestIdRef,
                   seq, startedPending, sdkActive>>
    /\ UNCHANGED <<gestureVars, lifeVars, serverVars, recVars, renderVars, now>>

----------------------------------------------------------------------------
(* Speech: startRecording / stopRecording, src/api/stt.js 332-402.  The mic  *)
(* button (598-608) is disabled unless isStreamingReady and while          *)
(* isTranscribing; the handlers read the isRecording and isTranscribing of *)
(* the latest render.                                                      *)

IdleRec == [pc |-> "idle", ready |-> FALSE]

\* the recorder of invocation i is in state "recording"
Recording(i) == i # 0 /\ recs[i].pc = "recording"

\* mediaRecorderRef.current?.stop(), lines 269 and 401: a recording recorder
\* stops and will fire onstop; on an inactive one stop() changes nothing
StopRecorder ==
    IF Recording(mediaRecorderRef)
    THEN [recs EXCEPT ![mediaRecorderRef].pc = "stopping"]
    ELSE recs

\* getTracks().forEach(track => track.stop()) on the stream of invocation
\* m, lines 270 and 385: a recorder still recording that stream goes
\* inactive and will fire onstop (rs: the recorders before the call)
StopTracks(rs, m) ==
    IF m # 0 /\ rs[m].pc = "recording"
    THEN [rs EXCEPT ![m].pc = "stopping"]
    ELSE rs

\* the mic button of the latest render is enabled (line 605)
MicEnabled == renderedReady /\ ~renderedTranscribing

\* an event on the mic button reaches its handler: always on the enabled
\* button; on the disabled one a mouse event does not and a touch event does
Deliveries == IF MicEnabled THEN {TRUE} ELSE BOOLEAN

\* mouse down / touch start on the mic button: startRecording up to its
\* await of getUserMedia, lines 332-340; the handler itself returns only
\* on the isRecording or isTranscribing of its render, so a second finger
\* or mouse button on the held button starts a second invocation
StartRecording(i) ==
    /\ mounted
    /\ pressed' = TRUE
    /\ \E delivered \in Deliveries :
          IF ~delivered \/ renderedRecording \/ renderedTranscribing
          THEN UNCHANGED recs
          ELSE /\ recs[i].pc = "idle"
               /\ \A h \in RecIds : h < i => recs[h].pc # "idle"
               /\ recs' = [recs EXCEPT ![i] = [pc |-> "acquiring", ready |-> renderedReady]]
    /\ ev' = NoCall
    /\ UNCHANGED <<isRecording, isTranscribing, mediaStreamRef, mediaRecorderRef, micLive>>
    /\ UNCHANGED <<sessionVars, gestureVars, lifeVars, interactPending, serverVars, renderVars, now>>

\* mouse up / mouse leave / touch end: stopRecording, lines 397-402
StopRecording ==
    /\ mounted
    /\ pressed' = FALSE
    /\ \E delivered \in Deliveries :
          recs' = IF delivered /\ renderedRecording THEN StopRecorder ELSE recs
    /\ ev' = NoCall
    /\ UNCHANGED <<isRecording, isTranscribing, mediaStreamRef, mediaRecorderRef, micLive>>
    /\ UNCHANGED <<sessionVars, gestureVars, lifeVars, interactPending, serverVars, renderVars, now>>

\* what follows the microphone being granted: the recorder starts, new
\* MediaRecorder(stream) throws, or recorder.start() throws
GrantOutcomes == {"ok", "ctorThrows", "startThrows"}

\* getUserMedia resolved: lines 340-345, 390-394 (the handlers of 347-388 are
\* installed); the setters of an unmounted component do nothing
MicGranted(i, o) ==
    /\ recs[i].pc = "acquiring"
    /\ micLive' = micLive \cup {i}
    /\ IF o = "ctorThrows"
       THEN /\ recs' = [recs EXCEPT ![i].pc = "failed"]
            /\ UNCHANGED <<mediaStreamRef, mediaRecorderRef, isRecording>>
       ELSE /\ mediaStreamRef' = i
            /\ mediaRecorderRef' = i
            /\ isRecording' = IF mounted THEN TRUE ELSE isRecording
            /\ recs' = [recs EXCEPT ![i].pc = IF o = "ok" THEN "recording" ELSE "failed"]
    /\ ev' = NoCall
    /\ UNCHANGED <<isTranscribing, pressed>>
    /\ UNCHANGED <<sessionVars, gestureVars, lifeVars, interactPending, serverVars, renderVars, now>>

\* getUserMedia rejected: the catch of lines 392-394
MicDenied(i) ==
    /\ recs[i].pc = "acquiring"
    /\ recs' = [recs EXCEPT ![i].pc = "denied"]
    /\ ev' = NoCall
    /\ UNCHANGED <<isRecording, isTranscribing, pressed, mediaStreamRef,
                   mediaRecorderRef, micLive>>
    /\ UNCHANGED <<sessionVars, gestureVars, lifeVars, interactPending, serverVars, renderVars, now>>

\* recorder.onstop up to its await of the fetch, lines 353-367
RecorderStopped(i) ==
    /\ recs[i].pc = "stopping"
    /\ recs' = [recs EXCEPT ![i].pc = "transcribing"]
    /\ isRecording' = IF mounted THEN FALSE ELSE isRecording
    /\ isTranscribing' = IF mounted THEN TRUE ELSE isTranscribing
    /\ ev' = NoCall
    /\ UNCHANGED <<pressed, mediaStreamRef, mediaRecorderRef, micLive>>
    /\ UNCHANGED <<sessionVars, gestureVars, lifeVars, interactPending, serverVars, renderVars, now>>

\* the bodies the fetch of /api/stt may end with: a response with a text,
\* or a failure (not ok, a thrown fetch or json)
Transcriptions == [kind : {"ok"}, text : Prompts] \cup [kind : {"fail"}, text : {<<>>}]

\* the fetch of invocation i completes: lines 369-387.  handleInteract is
\* the one of the render in which startRecording was called; the finally
\* stops the tracks of whatever stream mediaStreamRef holds now.
TranscribeCompletes(i, o) ==
    /\ recs[i].pc = "transcribing"
    /\ recs' = StopTracks([recs EXCEPT ![i].pc = "done"], mediaStreamRef)
    /\ ev' = IF o.kind = "ok" /\ Trim(o.text) # <<>>
             THEN HandleInteract(recs[i].ready, Trim(o.text), "speech")
             ELSE NoCall
    /\ interactPending' = (interactPending \/ ev'.call = "interact")
    /\ isTranscribing' = IF mounted THEN FALSE ELSE isTranscribing
    /\ micLive' = micLive \ {mediaStreamRef}
    /\ mediaStreamRef' = 0
    /\ UNCHANGED <<isRecording, pressed, mediaRecorderRef>>
    /\ UNCHANGED <<sessionVars, gestureVars, lifeVars, serverVars, renderVars, now>>

----------------------------------------------------------------------------
(* Unmount: the cleanups of the effects, src/api/stt.js 227-234, 267-281 *)

Settled == {"resolved", "rejected"}

\* a promise chain without its .catch
CatchNone(o) == o

\* .catch(() => undefined), lines 230 and 232: the chain goes on resolved
Catch(o) == "resolved"

\* The component is unmounted.  The connect effect's cleanup (227-234) exists
\* when the effect created a service; it calls service.endStream().  The
\* gesture cleanup (274-281) cancels the frame detectFrameRef names and stops
\* the tracks of cameraRef.current.srcObject; whether cameraRef.current is
\* still the element when a passive cleanup runs depends on the React
\* version (sees).  The recorder's cleanup (267-272) stops the recorder
\* mediaRecorderRef names and the tracks of the stream mediaStreamRef holds;
\* stop() on an inactive recorder throws in some browsers, which ends that
\* cleanup before the tracks are stopped (throws).
Unmount ==
    /\ mounted
    /\ mounted' = FALSE
    /\ IF serviceRef
       THEN /\ teardown' = "endStream"
            /\ ev' = Call("endStream", "teardown", <<>>, 0)
       ELSE /\ UNCHANGED teardown
            /\ ev' = NoCall
    /\ loops' = IF detectFrameRef # 0
                THEN [loops EXCEPT ![detectFrameRef] = IdleLoop]
                ELSE loops
    /\ \E sees \in BOOLEAN :
          liveStreams' = IF sees THEN liveStreams \ {cameraSrc} ELSE liveStreams
    /\ \E throws \in (IF mediaRecorderRef # 0 /\ ~Recording(mediaRecorderRef)
                       THEN BOOLEAN ELSE {FALSE}) :
          /\ micLive' = IF throws THEN micLive ELSE micLive \ {mediaStreamRef}
          /\ recs' = IF throws THEN recs ELSE StopTracks(StopRecorder, mediaStreamRef)
    /\ pressed' = FALSE
    /\ UNCHANGED <<isRecording, isTranscribing, mediaStreamRef, mediaRecorderRef>>
    /\ UNCHANGED <<disconnects, unhandled>>
    /\ UNCHANGED <<gesturesEnabled, detectFrameRef, lastVisionCheckRef,
                   lastGeminiAtRef, visionRetryAtRef, visionInFlightRef, requests,
                   pendingGestureRef, pendingTimerRef, timers, pendingSince,
                   cameraSrc, issues, last429>>
    /\ UNCHANGED <<sessionVars, interactPending, serverVars, renderVars, now>>

\* the cleanup's endStream settled with o: .catch, then .finally calls disconnect
TeardownEndStreamSettles(o) ==
    /\ teardown = "endStream"
    /\ teardown' = "disconnect"
    /\ disconnects' = disconnects + 1
    /\ unhandled' = (unhandled \/ Catch(o) = "rejected")
    /\ ev' = Call("disconnect", o, <<>>, 0)
    /\ UNCHANGED mounted
    /\ UNCHANGED <<sessionVars, gestureVars, interactPending, serverVars, recVars, renderVars, now>>

\* the cleanup's disconnect settled with o, line 232
DisconnectSettles(o) ==
    /\ teardown = "disconnect"
    /\ teardown' = "done"
    /\ unhandled' = (unhandled \/ Catch(o) = "rejected")
    /\ ev' = NoCall
    /\ UNCHANGED <<mounted, disconnects>>
    /\ UNCHANGED <<sessionVars, gestureVars, interactPending, serverVars, recVars, renderVars, now>>

----------------------------------------------------------------------------
(* The server: the transcription and gesture-vision endpoints, as Express   *)
(* routes (src/server/index.js) and as serverless handlers (src/api/stt.js *)
(* 33-75, src/api/gesture-vision.js), and the Express server's health and  *)
(* feature-summary gesture routes.  A handler runs from the arrival of a   *)
(* request to its response or to its call of the model; the outcome of the *)
(* call completes it.                                                      *)

SttRoutes == {"express_stt", "serverless_stt"}
VisionRoutes == {"express_vision", "serverless_vision"}

\* app.post('/api/gesture'), server/index.js 60-93
FeatureRoutes == {"express_gesture"}

\* app.get('/api/health'), server/index.js 18-20
HealthRoutes == {"express_health"}

\* the audio of a request: no multipart body at all, a multipart body with
\* no file part, a file part of zero bytes, a file part with bytes
AudioShapes == {"notMultipart", "noPart", "empty", "bytes"}

\* body.image: absent, only white space, base64 data
ImageShapes == {"missing", "blank", "data"}

\* body.features: absent, only white space, a feature summary
FeatureShapes == {"missing", "blank", "text"}

\* key: GEMINI_API_KEY is set in the server's environment
Requests ==
    [route : SttRoutes, method : {"POST", "GET"}, key : BOOLEAN,
     audio : AudioShapes, image : {"missing"}, features : {"missing"}]
      \cup [route : VisionRoutes, method : {"POST", "GET"}, key : BOOLEAN,
            audio : {"notMultipart"}, image : ImageShapes, features : {"missing"}]
      \cup [route : FeatureRoutes, method : {"POST", "GET"}, key : BOOLEAN,
            audio : {"notMultipart"}, image : {"missing"}, features : FeatureShapes]
      \cup [route : HealthRoutes, method : {"POST", "GET"}, key : BOOLEAN,
            audio : {"notMultipart"}, image : {"missing"}, features : {"missing"}]

NoRequest == [route |-> "none", method |-> "-", key |-> FALSE,
              audio |-> "notMultipart", image |-> "missing", features |-> "missing"]

\* a JSON response: error, text, label and ok are the fields of its body
Response(status, err, hasText, text, label, retry, to) ==
    [status |-> status, error |-> err, hasText |-> hasText, text |-> text,
     label |-> label, retryAfterMs |-> retry, ok |-> FALSE, to |-> to]

NoResponse == Response(0, FALSE, FALSE, <<>>, "absent", -1, NoRequest)

ErrorResponse(status, to) == Response(status, TRUE, FALSE, <<>>, "absent", -1, to)

\* res.json({ ok: true }), server/index.js 19
HealthResponse(to) ==
    [Response(200, FALSE, FALSE, <<>>, "absent", -1, to) EXCEPT !.ok = TRUE]

\* response.text of the model when the candidate carries no text
NoText == <<"[undefined]">>

\* String.prototype.toLowerCase on the tokens texts are made of
Lower(tok) ==
    CASE tok = "Hello" -> "hello"
      [] tok = "THUMBS_UP" -> "thumbs_up"
      [] tok = "None" -> "none"
      [] OTHER -> tok

ToLowerCase(s) == [k \in 1..Len(s) |-> Lower(s[k])]

\* texts the model may answer with
ModelTexts ==
    {NoText, <<>>, <<Space>>, <<"hello">>, <<Space, "Hello", Space>>,
     <<"THUMBS_UP">>, <<"victory">>, <<"namaste">>, <<"None">>, <<"wave">>,
     <<"constructor">>, <<"hello", ".">>, <<"hello", Space, "victory">>}

ClosedLabels == {"hello", "thumbs_up", "victory", "namaste", "none"}

\* gesture-vision.js 64-65, server/index.js 86-87 and 127-128
NormaliseLabel(text) ==
    LET t == IF text = NoText THEN <<>> ELSE ToLowerCase(Trim(text))
    IN IF Len(t) = 1 /\ t[1] \in ClosedLabels THEN t[1] ELSE "none"

\* stt.js 70, server/index.js 52: response.text?.trim() || ''
Transcript(text) == IF text = NoText THEN <<>> ELSE Trim(text)

\* multer's req.file: set for a file part, also one of zero bytes
HasFile(r) == r.audio \in {"empty", "bytes"}

\* the length of the buffer readMultipartAudio resolves with is 0
EmptyBuffer(r) == r.audio \in {"noPart", "empty"}

\* the status a handler answers with before any call of the model, 0 when
\* it goes on to call the model; Express answers 404 to a method the route
\* is not registered for
StatusBeforeModel(r) ==
    CASE r.route = "serverless_stt" ->
           IF r.method # "POST" THEN 405
           ELSE IF ~r.key THEN 500
           ELSE IF r.audio = "notMultipart" THEN 500
           ELSE IF EmptyBuffer(r) THEN 400
           ELSE 0
      [] r.route = "express_stt" ->
           IF r.method # "POST" THEN 404
           ELSE IF ~r.key THEN 500
           ELSE IF ~HasFile(r) THEN 400
           ELSE 0
      [] r.route = "serverless_vision" ->
           IF r.method # "POST" THEN 405
           ELSE IF ~r.key THEN 500
           ELSE IF r.image # "data" THEN 400
           ELSE 0
      [] r.route = "express_vision" ->
           IF r.method # "POST" THEN 404
           ELSE IF ~r.key THEN 500
           ELSE IF r.image # "data" THEN 400
           ELSE 0
      [] r.route = "express_gesture" ->
           IF r.method # "POST" THEN 404
           ELSE IF ~r.key THEN 500
           ELSE IF r.features # "text" THEN 400
           ELSE 0
      [] r.route = "express_health" ->
           IF r.method # "GET" THEN 404 ELSE 200

\* a request arrives and its handler runs up to its response or its await
\* of ai.models.generateContent
Receive(r) ==
    /\ request = NoRequest
    /\ IF StatusBeforeModel(r) = 0
       THEN /\ request' = r
            /\ response' = NoResponse
            /\ modelCalls' = 1
       ELSE /\ request' = NoRequest
            /\ response' = IF StatusBeforeModel(r) = 200
                           THEN HealthResponse(r)
                           ELSE ErrorResponse(StatusBeforeModel(r), r)
            /\ modelCalls' = 0
    /\ ev' = NoCall
    /\ UNCHANGED <<sessionVars, gestureVars, lifeVars, interactPending, recVars, renderVars, now>>

\* generateContent resolves with text
ModelReturns(text) ==
    /\ request # NoRequest
    /\ response' = IF request.route \in SttRoutes
                   THEN Response(200, FALSE, TRUE, Transcript(text), "absent", -1, request)
                   ELSE Response(200, FALSE, FALSE, <<>>, NormaliseLabel(text), -1, request)
    /\ request' = NoRequest
    /\ ev' = NoCall
    /\ UNCHANGED modelCalls
    /\ UNCHANGED <<sessionVars, gestureVars, lifeVars, interactPending, recVars, renderVars, now>>

\* generateContent throws an error whose status is st
ModelThrows(st) ==
    /\ request # NoRequest
    /\ response' = IF request.route \in VisionRoutes /\ st = 429
                   THEN Response(429, TRUE, FALSE, <<>>, "absent", 10000, request)
                   ELSE ErrorResponse(500, request)
    /\ request' = NoRequest
    /\ ev' = NoCall
    /\ UNCHANGED modelCalls
    /\ UNCHANGED <<sessionVars, gestureVars, lifeVars, interactPending, recVars, renderVars, now>>

----------------------------------------------------------------------------
(* Time.  Animation frames and timers run far more often than the clock    *)
(* steps, so the clock does not pass a due timer or a due capture.  The    *)
(* clock steps by TickMs while a debounce timer is armed and by CoarseMs   *)
(* otherwise.                                                              *)

Tick ==
    /\ \A tm \in timers : tm.at > now
    /\ \A i \in LoopIds : loops[i].pc = "running" => ~CaptureDue
    /\ now' = now + (IF timers = {} THEN CoarseMs ELSE TickMs)
    /\ now' <= MaxNow
    /\ ev' = NoCall
    /\ UNCHANGED <<sessionVars, gestureVars, lifeVars, interactPending, serverVars,
                   recVars, renderVars>>

----------------------------------------------------------------------------
(* Specifications *)

GestureInit ==
    /\ gesturesEnabled = FALSE
    /\ loops = [i \in LoopIds |-> IdleLoop]
    /\ detectFrameRef = 0
    /\ lastVisionCheckRef = 0
    /\ lastGeminiAtRef = 0
    /\ visionRetryAtRef = 0
    /\ visionInFlightRef = FALSE
    /\ requests = <<>>
    /\ pendingGestureRef = "null"
    /\ pendingTimerRef = NoTimer
    /\ timers = {}
    /\ pendingSince = 0
    /\ cameraSrc = 0
    /\ liveStreams = {}
    /\ issues = <<>>
    /\ last429 = No429

\* mounted, nothing torn down, no interaction sent, the server idle
LifeInit ==
    /\ mounted = TRUE
    /\ teardown = "idle"
    /\ disconnects = 0
    /\ unhandled = FALSE
    /\ interactPending = FALSE
    /\ renderedReady = isStreamingReady
    /\ renderedGestures = FALSE
    /\ renderedRecording = FALSE
    /\ renderedTranscribing = FALSE
    /\ request = NoRequest
    /\ response = NoResponse
    /\ modelCalls = 0
    /\ isRecording = FALSE
    /\ isTranscribing = FALSE
    /\ pressed = FALSE
    /\ recs = [i \in RecIds |-> IdleRec]
    /\ mediaStreamRef = 0
    /\ mediaRecorderRef = 0
    /\ micLive = {}

SessionInit(keys) ==
    /\ serviceRef \in keys
    /\ connectPc = IF serviceRef THEN "pending" ELSE "idle"
    /\ connectionStatus = "disconnected"
    /\ renderedConnected = FALSE
    /\ streamState = "idle"
    /\ isStreamingReady = FALSE
    /\ error \in IF serviceRef THEN {"null", "missing_key"} ELSE {"missing_key"}
    /\ index = 0
    /\ requestIdRef = 0
    /\ seq = [t \in Tokens |-> "idle"]
    /\ startedPending = {}
    /\ sdkActive = FALSE

\* after mount (lines 131-190): with the key of the environment, with a key
\* read from localStorage by the effect of 173-181 (the connect effect of
\* the first commit has then already set the missing-key error, and nothing
\* clears it when the second commit connects), or with no key
Init ==
    /\ SessionInit(BOOLEAN)
    /\ GestureInit
    /\ LifeInit
    /\ now = 0
    /\ ev = NoCall

SessionNext ==
    \/ \E key \in Prompts : HandleSaveKey(key)
    \/ ConnectResolves
    \/ ConnectRejects
    \/ \E s \in ConnectionStatuses : OnStatusChange(s)
    \/ Render
    \/ \E t \in Tokens : OnStreamStarted(t)
    \/ OnStreamEnded
    \/ OnStreamError
    \/ OnError
    \/ HandleNext
    \/ HandlePrev
    \/ \E t \in Tokens : EndStreamSettles(t)
    \/ \E t \in Tokens : LoadImageResolves(t)
    \/ \E t \in Tokens : LoadImageRejects(t)
    \/ \E t \in Tokens : StartStreamResolves(t)
    \/ \E t \in Tokens : StartStreamRejects(t)

Next == SessionNext

Spec == Init /\ [][Next]_vars

(* The gesture pipeline in time.  The session runs with an API key and at   *)
(* most GestureTokens slide transitions, so that the clock and the pipeline *)
(* carry the state space.                                                  *)

GestureSpecInit ==
    /\ serviceRef = TRUE
    /\ connectPc = "resolved"
    /\ connectionStatus = "connected"
    /\ renderedConnected = TRUE
    /\ streamState = "streaming"
    /\ isStreamingReady = TRUE
    /\ error = "null"
    /\ index = 0
    /\ requestIdRef = 1
    /\ seq = [t \in Tokens |-> IF t = 1 THEN "done" ELSE "idle"]
    /\ startedPending = {}
    /\ sdkActive = TRUE
    /\ GestureInit
    /\ LifeInit
    /\ now = 0
    /\ ev = NoCall

\* the guard that keeps tokens within the smaller bound
GestureCanMint(connected) == (serviceRef /\ connected) => requestIdRef < GestureTokens

GestureSession ==
    /\ GestureCanMint(renderedConnected)
    /\ HandleNext

\* The governor and the capture loops in time.  The stream may end under
\* them (which, like a slide change, takes the stream-ready flag away for
\* good here); the responses carry no gesture.
NoGesture == {o \in Outcomes : ~(o.kind = "ok" /\ HasPrompt(o.label))}

GovernorNext ==
    \/ Render
    \/ Tick
    \/ OnStreamEnded
    \/ \E i \in LoopIds : EnableGestures(i)
    \/ \E i \in LoopIds : CameraGranted(i)
    \/ \E i \in LoopIds : PlayResolves(i)
    \/ DisableGestures
    \/ \E i \in LoopIds : Detect(i)
    \/ \E j \in 1..MaxRequests, o \in NoGesture : ClassifyCompletes(j, o)

GovernorSpec == GestureSpecInit /\ [][GovernorNext]_vars

GestureNext ==
    \/ Render
    \/ Tick
    \/ GestureSession
    \/ \E t \in Tokens : EndStreamSettles(t)
    \/ \E t \in Tokens : LoadImageResolves(t)
    \/ \E t \in Tokens : OnStreamStarted(t)
    \/ OnStreamEnded
    \/ EnableGestures(1)
    \/ CameraGranted(1)
    \/ PlayResolves(1)
    \/ DisableGestures
    \/ Detect(1)
    \/ \E o \in Outcomes : ClassifyCompletes(1, o)
    \/ \E tm \in timers : TimerFires(tm)
    \/ \E text \in Prompts : HandleTextPromptSubmit(text)

GestureSpec == GestureSpecInit /\ [][GestureNext]_vars

\* Render within the smaller bound on tokens
BoundedRender ==
    /\ renderedConnected # Connected => GestureCanMint(Connected)
    /\ Render

(* The interaction dispatcher over the session: a session with at most      *)
(* GestureTokens slide transitions, the prompt and CTA entries and the     *)
(* promises of interact.                                                   *)

DispatchNext ==
    \/ \E key \in Prompts : HandleSaveKey(key)
    \/ ConnectResolves
    \/ ConnectRejects
    \/ \E s \in ConnectionStatuses : OnStatusChange(s)
    \/ BoundedRender
    \/ \E t \in Tokens : OnStreamStarted(t)
    \/ OnStreamEnded
    \/ OnStreamError
    \/ OnError
    \/ GestureSession
    \/ \E t \in Tokens : EndStreamSettles(t)
    \/ \E t \in Tokens : LoadImageResolves(t)
    \/ \E t \in Tokens : LoadImageRejects(t)
    \/ \E t \in Tokens : StartStreamResolves(t)
    \/ \E t \in Tokens : StartStreamRejects(t)
    \/ \E text \in Prompts : HandleTextPromptSubmit(text)
    \/ \E cta \in Prompts : HandleCta(cta)
    \/ InteractResolves
    \/ InteractRejects

DispatchSpec == Init /\ [][DispatchNext]_vars

(* Teardown of the session: a session with at most GestureTokens slide      *)
(* transitions, unmounted at any moment.                                   *)

TeardownNext ==
    \/ \E key \in Prompts : HandleSaveKey(key)
    \/ ConnectResolves
    \/ ConnectRejects
    \/ \E s \in ConnectionStatuses : OnStatusChange(s)
    \/ BoundedRender
    \/ \E t \in Tokens : OnStreamStarted(t)
    \/ OnStreamEnded
    \/ GestureSession
    \/ \E t \in Tokens : EndStreamSettles(t)
    \/ \E t \in Tokens : LoadImageResolves(t)
    \/ \E t \in Tokens : LoadImageRejects(t)
    \/ \E t \in Tokens : StartStreamResolves(t)
    \/ \E t \in Tokens : StartStreamRejects(t)
    \/ Unmount
    \/ \E o \in Settled : TeardownEndStreamSettles(o)
    \/ \E o \in Settled : DisconnectSettles(o)

TeardownSpec == Init /\ [][TeardownNext]_vars

(* The camera handle: enabling and disabling gesture detection from a       *)
(* streaming session, unmounted at any moment.                             *)

CameraNext ==
    \/ Render
    \/ \E i \in LoopIds : EnableGestures(i)
    \/ \E i \in LoopIds : CameraGranted(i)
    \/ \E i \in LoopIds : CameraDenied(i)
    \/ \E i \in LoopIds : PlayResolves(i)
    \/ \E i \in LoopIds : PlayRejects(i)
    \/ DisableGestures
    \/ \E i \in LoopIds : Detect(i)
    \/ Unmount
    \/ \E o \in Settled : TeardownEndStreamSettles(o)
    \/ \E o \in Settled : DisconnectSettles(o)

CameraSpec == GestureSpecInit /\ [][CameraNext]_vars

(* Speech input from a streaming session, which may end or be unmounted. *)

RecordingNext ==
    \/ Render
    \/ \E i \in RecIds : StartRecording(i)
    \/ StopRecording
    \/ \E i \in RecIds, o \in GrantOutcomes : MicGranted(i, o)
    \/ \E i \in RecIds : MicDenied(i)
    \/ \E i \in RecIds : RecorderStopped(i)
    \/ \E i \in RecIds, o \in Transcriptions : TranscribeCompletes(i, o)
    \/ OnStreamEnded
    \/ Unmount

RecordingSpec == GestureSpecInit /\ [][RecordingNext]_vars

(* The server on its own: one request after another. *)

ServerNext ==
    \/ \E r \in Requests : Receive(r)
    \/ \E text \in ModelTexts : ModelReturns(text)
    \/ \E st \in {429, 500} : ModelThrows(st)

ServerSpec == Init /\ [][ServerNext]_vars

----------------------------------------------------------------------------
(* Claims *)

Suspended == {"endStream", "loadImage", "startStream"}

\* C1: whenever an outbound interact call is made, StreamState is
\* `streaming` at that moment, whichever entry into handleInteract made it.
C1_InteractOnlyWhileStreaming ==
    ev.call = "interact" => streamState = "streaming"

\* C2: when a slide-change sequence whose token has been superseded resumes
\* (its endStream settles, its image load or its startStream completes or
\* fails), it does not call startStream and leaves StreamState, the
\* stream-ready flag, the error message and ConnectionStatus unchanged.
C2_StaleSequenceIsSilent ==
    [][\A t \in Tokens :
          (t < requestIdRef /\ seq[t] \in Suspended /\ seq'[t] # seq[t])
             => /\ UNCHANGED <<streamState, isStreamingReady, error, connectionStatus, renderedConnected>>
                /\ ev'.call # "startStream"]_vars

\* a superseded sequence has resumed from its image load and stepped aside
C2_Witness ==
    \E t \in Tokens : t < requestIdRef /\ seq[t] = "abandoned"

\* C3 as stated: a sequence whose token was superseded before its
\* stream-start resolved has never called startStream, so no superseded
\* sequence is ever found awaiting its startStream.
C3_SupersededNeverCallsStart ==
    \A t \in Tokens : t < requestIdRef => seq[t] # "startStream"

\* C3 as amended: startStream is called only by the sequence holding the
\* current token; a sequence superseded before its image load resolved
\* never calls it.
C3_StartOnlyByCurrentToken ==
    /\ ev.call = "startStream" => ev.token = requestIdRef
    /\ \A t \in Tokens : seq[t] = "abandoned" => t \notin startedPending

\* token 2 calls startStream after token 1 was superseded during its load
C3_Witness ==
    /\ ev.call = "startStream"
    /\ ev.token = 2
    /\ seq[1] = "abandoned"

BothLoopsRunning == \A i \in {1, 2} : loops[i].pc = "running"

\* a frame was captured at this instant
CapturedNow ==
    /\ lastVisionCheckRef = now
    /\ \E i \in LoopIds : loops[i].pc = "running"

CooldownElapsed == DateNow - lastGeminiAtRef >= GEMINI_GESTURE_COOLDOWN_MS

\* C4: the number of classification fetches issued and not yet completed is
\* 0 or 1 in every reachable state, also with two capture loops running.
C4_AtMostOneOutstanding ==
    Len(requests) <= 1

\* with two loops running, a frame captured after the cooldown has elapsed
\* finds the earlier fetch still outstanding
C4_Witness ==
    /\ Len(requests) = 1
    /\ BothLoopsRunning
    /\ CapturedNow
    /\ CooldownElapsed
    /\ DateNow >= visionRetryAtRef

\* C5: every classification fetch is issued no earlier than
\* max(lastCallAt + COOLDOWN_MS, retryNotBeforeAt) as they stood when it was
\* issued, consecutive fetches are at least COOLDOWN_MS apart, and
\* lastCallAt is the issue time of the latest fetch.
C5_IssuedAfterCooldownAndBackoff ==
    /\ \A k \in 1..Len(issues) :
          /\ issues[k].at >= issues[k].last + GEMINI_GESTURE_COOLDOWN_MS
          /\ issues[k].at >= issues[k].retry
          /\ k > 1 => issues[k].at - issues[k - 1].at >= GEMINI_GESTURE_COOLDOWN_MS
    /\ issues # <<>> => lastGeminiAtRef = issues[Len(issues)].at

\* two fetches issued exactly one cooldown apart
C5_Witness ==
    /\ Len(issues) = 2
    /\ issues[2].at - issues[1].at = GEMINI_GESTURE_COOLDOWN_MS

RetryAfter(ms) == IF ms = -1 THEN 10000 ELSE ms

\* C6: once a 429 response has been handled, retryNotBeforeAt is the time of
\* handling plus its retryAfterMs (10000 ms when the field is absent), and
\* every fetch issued after the answered one is issued at or after that
\* deadline; after a retryAfterMs of 10000 none is issued within 10000 ms
\* of the answered fetch.
C6_BackoffPrecedence ==
    last429 # No429 =>
        /\ visionRetryAtRef = last429.at + RetryAfter(last429.ms)
        /\ \A k \in 1..Len(issues) :
              issues[k].at > last429.issuedAt =>
                  /\ issues[k].at >= last429.at + RetryAfter(last429.ms)
                  /\ last429.ms = 10000 => issues[k].at >= last429.issuedAt + 10000

\* a frame captured after the cooldown has elapsed, with no fetch
\* outstanding, is held back by the 429 deadline alone
C6_Witness ==
    /\ last429 # No429
    /\ CapturedNow
    /\ ~visionInFlightRef
    /\ CooldownElapsed
    /\ DateNow < visionRetryAtRef
    /\ ev.call = "none"

\* C7: a debounce timer confirms label L only if L is the pending label and
\* has been so, without a differing label in between, for at least
\* GESTURE_DELAY_MS; and no armed timer belongs to a label that has been
\* superseded.
C7_ConfirmedOnlyAfterQuietPeriod ==
    [][/\ ev'.fired # "null" =>
             /\ ev'.fired = pendingGestureRef
             /\ now - pendingSince >= GESTURE_DELAY_MS
       /\ \A tm \in timers' : tm.label = pendingGestureRef']_vars

\* a stabilised gesture has been dispatched
C7_Witness ==
    /\ ev.fired \in GestureLabels
    /\ ev.call = "interact"

\* C8: a response whose label equals the label already pending, with its
\* timer armed, leaves the armed deadline as it was.
C8_SameLabelKeepsDeadline ==
    (/\ ev.call = "response"
     /\ ev.via = "ok"
     /\ ev.label = ev.was
     /\ ev.at >= 0)
        => Deadline = ev.at

\* C9: a classification outcome that carries no gesture (none, a missing or
\* unrecognised label, a 429, another non-OK status, a thrown error) leaves
\* the pending label and the armed deadline as they were.
C9_NoGestureLeavesPending ==
    (/\ ev.call = "response"
     /\ ev.via # "ok" \/ ev.label \notin GestureLabels)
        => /\ pendingGestureRef = ev.was
           /\ Deadline = ev.at

\* C10: a classification fetch is issued by a capture tick only while
\* StreamState is `streaming`.
C10_ClassifyOnlyWhileStreaming ==
    ev.call = "classify" => streamState = "streaming"

\* C11: once disableGestures has returned and until gestures are enabled
\* again, no capture iteration runs: no frame is captured and no
\* classification fetch is issued while gesturesEnabled is false.
C11_NoCaptureAfterDisable ==
    [][(lastVisionCheckRef' # lastVisionCheckRef \/ ev'.call = "classify")
          => gesturesEnabled]_vars

\* C12: while gesture detection is disabled no debounce timer is armed, the
\* pending gesture is empty, the governor is in its initial state and no
\* confirmed gesture is dispatched.
C12_DisableResetsGestureState ==
    ~gesturesEnabled =>
        /\ timers = {}
        /\ pendingGestureRef = "null"
        /\ ~visionInFlightRef
        /\ lastGeminiAtRef = 0
        /\ visionRetryAtRef = 0
        /\ ev.fired = "null"

\* C13: a camera stream whose tracks are not stopped belongs to an
\* enableGestures invocation that is still starting playback or running its
\* loop, and after unmount no camera stream is left with live tracks.
C13_CameraReleasedOnEveryExit ==
    /\ \A s \in liveStreams : loops[s].pc \in {"playing", "running"}
    /\ ~mounted => liveStreams = {}

\* C14: the rejection of an interact call sets the error message and leaves
\* StreamState, the stream-ready flag, ConnectionStatus and the request
\* token unchanged.
C14_FailedInteractOnlySetsError ==
    [][ev'.call = "rejected" =>
          /\ UNCHANGED <<streamState, isStreamingReady, connectionStatus, renderedConnected, requestIdRef>>
          /\ mounted => error' = "interact_failed"]_vars

\* an interaction sent while streaming is rejected after a slide change
\* has made the stream `starting`
C14_Witness ==
    /\ ev.call = "rejected"
    /\ streamState = "starting"
    /\ error = "interact_failed"

\* C15: teardown calls disconnect exactly once, when its endStream call has
\* settled, resolved or rejected, and no rejection of endStream or of
\* disconnect is left unhandled.
C15_TeardownEndsThenDisconnects ==
    /\ teardown \in {"idle", "endStream"} => disconnects = 0
    /\ teardown \in {"disconnect", "done"} => disconnects = 1
    /\ (~mounted /\ serviceRef) => teardown # "idle"
    /\ ev.call = "disconnect" => teardown = "disconnect"
    /\ ~unhandled

\* disconnect is called after the cleanup's endStream was rejected
C15_Witness ==
    /\ ev.call = "disconnect"
    /\ ev.via = "rejected"
    /\ disconnects = 1

\* C16: a slide-change sequence that was suspended in endStream or in the
\* image load when the component was torn down does not, when it resumes,
\* call startStream or change StreamState.
C16_TeardownCancelsSequences ==
    [][\A t \in Tokens :
          (~mounted /\ seq[t] \in {"endStream", "loadImage"} /\ seq'[t] # seq[t])
             => /\ ev'.call # "startStream"
                /\ streamState' = streamState]_vars

\* an upload to the transcription endpoint, the server key set, whose audio
\* is empty: no audio part, or an audio part of zero bytes
EmptyAudio(r) ==
    /\ r.route \in SttRoutes
    /\ r.method = "POST"
    /\ r.key
    /\ r.audio \in {"noPart", "empty"}

\* C17: a transcription request with empty audio makes no call of the model
\* and is answered 400 with an error body and no text field, on the Express
\* route and on the serverless handler.
C17_EmptyAudioIs400 ==
    /\ ~EmptyAudio(request)
    /\ EmptyAudio(response.to) =>
          /\ response.status = 400
          /\ response.error
          /\ ~response.hasText

\* C18: whatever text the model returns, the label of a successful
\* classification response is one of hello, thumbs_up, victory, namaste or
\* none, other and empty texts giving none; and on the client a response
\* label that is none or outside the four gesture labels does not arm the
\* debounce timer and no gesture dispatch is made for such a label.
C18_ClosedSetLabels ==
    /\ \A text \in ModelTexts : NormaliseLabel(text) \in ClosedLabels
    /\ \A text \in {NoText, <<>>, <<"wave">>, <<"constructor">>} :
          NormaliseLabel(text) = "none"
    /\ (ev.call = "response" /\ ev.via = "ok" /\ ev.label \notin GestureLabels)
          => Deadline = ev.at
    /\ ev.fired # "null" => ev.fired \in GestureLabels

\* C19: the completion of a classification fetch, whatever its outcome,
\* leaves inFlight false and the capture loop scheduled as it was; and a
\* frame captured when no fetch is outstanding and the cooldown and the
\* retry deadline have passed is submitted.
C19_InFlightClearedOnCompletion ==
    [][/\ ev'.call = "response" =>
             /\ ~visionInFlightRef'
             /\ loops' = loops
             /\ detectFrameRef' = detectFrameRef
       /\ (/\ lastVisionCheckRef' # lastVisionCheckRef
           /\ requests = <<>>
           /\ CooldownElapsed
           /\ DateNow >= visionRetryAtRef
           /\ \A i \in LoopIds : loops[i].pc = "running" => loops[i].ready)
             => ev'.call = "classify"]_vars

\* a second fetch is issued after the first was answered 429
C19_Witness ==
    /\ ev.call = "classify"
    /\ Len(issues) = 2
    /\ last429 # No429
    /\ last429.issuedAt = issues[1].at

\* C20: StreamState changes only along the transition table: to `starting`
\* when a token is minted by a render that is connected, to `streaming` from `starting`
\* on a stream-started callback, to `ended` on a stream-ended callback, to
\* `error` on an error callback or a failed sequence or connect; it does
\* not leave `starting` for `ended`.
C20_TransitionTable ==
    [][/\ (streamState' = "starting" /\ streamState # "starting")
             => (requestIdRef' = requestIdRef + 1 /\ renderedConnected')
       /\ (streamState' = "streaming" /\ streamState # "streaming")
             => (streamState = "starting" /\ startedPending' # startedPending)
       /\ (streamState' = "ended" /\ streamState # "ended")
             => (sdkActive /\ ~sdkActive' /\ streamState # "starting")
       /\ (streamState' = "error" /\ streamState # "error")
             => error' \in {"stream_error", "sdk_error", "run_failed", "connect_failed"}
      ]_vars

\* C21: at most one debounce timer is armed, it is the one pendingTimerRef
\* names and it carries the pending label; a timer that has run is armed no
\* more, and a confirmed-gesture dispatch leaves the pending label empty.
C21_AtMostOneTimer ==
    /\ Cardinality(timers) <= 1
    /\ \A tm \in timers : tm = pendingTimerRef /\ tm.label = pendingGestureRef
    /\ ev.fired # "null" => timers = {}
    /\ (ev.call = "interact" /\ ev.via = "gesture") => pendingGestureRef = "null"

\* a response with a new gesture label arrived while the timer of another
\* label was armed, and one timer, that of the new label, is armed
C21_Witness ==
    /\ ev.call = "response"
    /\ ev.at >= 0
    /\ ev.was \in GestureLabels
    /\ ev.label \in GestureLabels \ {ev.was}
    /\ timers = {pendingTimerRef}
    /\ pendingTimerRef.label = ev.label

\* C22: whenever StreamState is `streaming`, or the session is marked
\* stream-ready, the sequence holding the current request token has called
\* startStream; a callback of a stream started under a superseded token
\* does not make the session streaming before that.
C22_StreamingOnlyByCurrentToken ==
    (streamState = "streaming" \/ isStreamingReady) =>
        /\ requestIdRef \in Tokens
        /\ seq[requestIdRef] \in {"startStream", "done"}

\* C23: in every reachable state the stream-ready flag is true if and only
\* if StreamState is `streaming`.
C23_ReadyIffStreaming ==
    isStreamingReady <=> streamState = "streaming"

RunningLoops == {i \in LoopIds : loops[i].pc = "running"}

\* C24: at most one capture loop is running and at most one acquired camera
\* stream has live tracks, also when enableGestures is invoked again while
\* an earlier invocation awaits the camera; and disableGestures leaves no
\* capture callback scheduled and no camera stream with live tracks.
C24_OneLoopOneCamera ==
    [][/\ Cardinality(RunningLoops') <= 1
       /\ Cardinality(liveStreams') <= 1
       /\ (gesturesEnabled /\ ~gesturesEnabled')
             => (RunningLoops' = {} /\ liveStreams' = {})]_vars

\* C25: once the user has released the mic button no recorder is left
\* recording with no stop pending, and a microphone stream with live tracks
\* is one that something will still stop: it belongs to an invocation that
\* is recording, stopping or transcribing, or mediaStreamRef still holds it.
C25_RecordingStoppedAndReleased ==
    /\ ~pressed => \A i \in RecIds : recs[i].pc # "recording"
    /\ \A m \in micLive :
          \/ recs[m].pc \in {"recording", "stopping", "transcribing"}
          \/ m = mediaStreamRef

====
